---- MODULE Spec2Model ----
(***************************************************************************)
(* Video-Metadata-Modifier.py: the metadata reader and writer              *)
(* (VideoMetadataModifier), the command line (main) and the form           *)
(* (VideoMetadataGUI) with its worker threads.                             *)
(*                                                                         *)
(* Python values: None is the definition None; a str is a TLA+ string; a   *)
(* dict is the sequence of its <<key, value>> items in insertion order;    *)
(* an exception is the name of its class in the field exc of a result      *)
(* ("none" when the call returned).                                        *)
(***************************************************************************)
EXTENDS Integers, Sequences, FiniteSets, TLC

VARIABLES
    mode,        \* which entry point drives the process: "cli", "gui", "api"
    installed,   \* the external tools found on PATH
    procs,       \* external processes started so far: [tool, file]; the run
                 \* of a tool that is not installed starts none
    cache,       \* VideoMetadataModifier._metadata_cache: path -> document
    args,        \* main: the parsed argparse namespace
    pc,          \* main: position
    exitCode,    \* main: exit status of the process (NoExit while running)
    stdout,      \* main: what the run printed last
    call,        \* api: the last public operation called and how it ended
    calls,       \* api: number of public operations called
    form,        \* gui: the tk variables and widgets of the form
    edits,       \* gui: number of user actions on the widgets so far
    workers,     \* gui: the threads started by process_video
    dialogs,     \* gui: the kind of the last modal box shown
    touched      \* gui: the threads that have read or written a widget

vars == <<mode, installed, procs, cache, args, pc, exitCode, stdout,
          call, calls, form, edits, workers, dialogs, touched>>

-----------------------------------------------------------------------------
(* Bounds *)

MaxCalls == 2        \* public operations called in one api run
MaxWorkers == 2      \* worker threads started in one form session
MaxEdits == 3        \* user actions on the widgets in one form session

-----------------------------------------------------------------------------
(* Python values *)

None == "<None>"

Truthy(x) == x /= None /\ x /= ""

Range(s) == {s[i] : i \in 1..Len(s)}

-----------------------------------------------------------------------------
(* Files of the run *)

VideoPaths == {"clip.mp4", "CLIP.MP4", "clip.mkv", "notes.txt", "gone.mp4"}

ExistingFiles == {"clip.mp4", "CLIP.MP4", "clip.mkv", "notes.txt",
                  "good.json", "empty.json", "bad.json"}

Exists(p) == p \in ExistingFiles

\* Path(p).suffix
Suffix(p) ==
    CASE p = "clip.mp4"  -> ".mp4"
      [] p = "CLIP.MP4"  -> ".MP4"
      [] p = "gone.mp4"  -> ".mp4"
      [] p = "clip.mkv"  -> ".mkv"
      [] p = "notes.txt" -> ".txt"
      [] p \in {"good.json", "empty.json", "bad.json", "missing.json"} -> ".json"
      [] OTHER -> ""

\* str.lower() on the suffixes above
Lower(s) ==
    CASE s = ".MP4" -> ".mp4"
      [] OTHER -> s

SUPPORTED_FORMATS == {".mp4", ".mov", ".avi", ".mkv", ".m4v", ".3gp"}

\* json.load(open(p)): the mapping, or the exception raised
JsonLoad(p) ==
    CASE p = "good.json"  -> [exc |-> "none", value |-> <<<<"make", "Acme">>, <<"model", "X1">>>>]
      [] p = "empty.json" -> [exc |-> "none", value |-> <<>>]
      [] p = "bad.json"   -> [exc |-> "JSONDecodeError", value |-> <<>>]
      [] OTHER            -> [exc |-> "FileNotFoundError", value |-> <<>>]

-----------------------------------------------------------------------------
(* Device profiles *)

Profile(make, model, software, tool) ==
    << <<"make", make>>, <<"model", model>>, <<"software", software>>,
       <<"encoder", "HEVC (H.265)">>, <<"creation_tool", tool>> >>

DeviceNames ==
    << "iPhone 14 Pro", "Samsung Galaxy S24 Ultra", "Google Pixel 9 Pro",
       "Samsung Galaxy Z Fold 6", "OnePlus Open", "Xiaomi 15",
       "Huawei Mate 60 Pro", "Sony Xperia 5 VI", "Oppo Find N3", "Vivo X100 Pro" >>

get_device_profiles(name) ==
    CASE name = "iPhone 14 Pro" ->
           Profile("Apple", "iPhone 14 Pro", "iOS 16.0",
                   "iPhone 14 Pro back triple camera 6.86mm f/1.78")
      [] name = "Samsung Galaxy S24 Ultra" ->
           Profile("Samsung", "SM-S928B", "Android 14", "Samsung Galaxy S24 Ultra")
      [] name = "Google Pixel 9 Pro" ->
           Profile("Google", "Pixel 9 Pro", "Android 15", "Google Pixel 9 Pro")
      [] name = "Samsung Galaxy Z Fold 6" ->
           Profile("Samsung", "SM-F956B", "Android 14", "Samsung Galaxy Z Fold 6")
      [] name = "OnePlus Open" ->
           Profile("OnePlus", "CPH2517", "Android 14", "OnePlus Open")
      [] name = "Xiaomi 15" ->
           Profile("Xiaomi", "2405CPH5DC", "Android 15", "Xiaomi 15")
      [] name = "Huawei Mate 60 Pro" ->
           Profile("Huawei", "DCO-AL00", "HarmonyOS 4.0", "Huawei Mate 60 Pro")
      [] name = "Sony Xperia 5 VI" ->
           Profile("Sony", "XQ-DQ74", "Android 14", "Sony Xperia 5 VI")
      [] name = "Oppo Find N3" ->
           Profile("Oppo", "CPH2511", "Android 13", "Oppo Find N3")
      [] name = "Vivo X100 Pro" ->
           Profile("Vivo", "V2303A", "Android 14", "Vivo X100 Pro")

\* get_device_profiles().get(name, {})
ProfileGet(name) ==
    IF name \in Range(DeviceNames) THEN get_device_profiles(name) ELSE <<>>

-----------------------------------------------------------------------------
(* External tools *)

Tools == {"ffmpeg", "ffprobe", "exiftool"}

\* subprocess.run(cmd, check=True): "ok" returns, "nonzero" raises
\* CalledProcessError, "absent" raises FileNotFoundError
RunOutcomes(tool, inst) ==
    IF tool \in inst THEN {"ok", "nonzero"} ELSE {"absent"}

\* ffprobe can also exit 0 with output that json.loads rejects
ProbeOutcomes(inst) ==
    IF "ffprobe" \in inst THEN {"ok", "nonzero", "unparsable"} ELSE {"absent"}

\* MP4(input).save(output) of the tag library
TagOutcomes == {"ok", "error"}

Proc(tool, file) == [tool |-> tool, file |-> file]

\* the processes a subprocess.run with outcome o starts
Started(tool, file, o) == IF o = "absent" THEN <<>> ELSE <<Proc(tool, file)>>

-----------------------------------------------------------------------------
(* VideoMetadataModifier *)

\* check_tools: o1 is the outcome of `ffmpeg -version`, o2 of `exiftool -ver`
check_tools(o1, o2) ==
    IF o1 /= "ok"
    THEN [exc |-> "RuntimeError", procs |-> Started("ffmpeg", "-version", o1)]
    ELSE [exc |-> "none",
          procs |-> Started("ffmpeg", "-version", o1) \o Started("exiftool", "-ver", o2)]

validate_input_file(file_path) ==
    IF ~Exists(file_path) THEN FALSE
    ELSE IF Lower(Suffix(file_path)) \notin SUPPORTED_FORMATS THEN FALSE
    ELSE TRUE

\* the documents: {} and the probe's JSON with file_info of the path merged in
EmptyDoc == <<>>
Doc(p) == <<"format", "streams", "file_info", p>>
NoValue == <<"raised">>

\* get_current_metadata(file_path) on cache c, the probe ending with outcome o
get_current_metadata(c, file_path, o) ==
    IF file_path \in DOMAIN c
    THEN [exc |-> "none", value |-> c[file_path], cache |-> c, procs |-> <<>>]
    ELSE LET started == Started("ffprobe", file_path, o) IN
         CASE o = "ok" ->
                [exc |-> "none", value |-> Doc(file_path),
                 cache |-> (file_path :> Doc(file_path)) @@ c, procs |-> started]
           [] o = "nonzero" ->
                [exc |-> "none", value |-> EmptyDoc,
                 cache |-> (file_path :> EmptyDoc) @@ c, procs |-> started]
           [] o = "unparsable" ->
                [exc |-> "JSONDecodeError", value |-> NoValue, cache |-> c,
                 procs |-> started]
           [] o = "absent" ->
                [exc |-> "FileNotFoundError", value |-> NoValue, cache |-> c,
                 procs |-> started]

\* one '-metadata', 'key=value' pair of arguments
MetadataArg(key, value) == << <<"-metadata">>, <<key, "=", value>> >>

RECURSIVE ProfileArgs(_)
ProfileArgs(profile) ==
    IF profile = <<>> THEN <<>>
    ELSE MetadataArg(profile[1][1], profile[1][2]) \o ProfileArgs(Tail(profile))

\* build_metadata_args testing `custom_date is not None`
build_metadata_args_not_none(profile, custom_date) ==
    ProfileArgs(profile) \o
    (IF custom_date /= None THEN MetadataArg("creation_time", custom_date) ELSE <<>>)

build_metadata_args(profile, custom_date) ==
    ProfileArgs(profile) \o
    (IF Truthy(custom_date) THEN MetadataArg("creation_time", custom_date) ELSE <<>>)

\* the result of a writer: the boolean returned or the exception raised, the
\* backend that ran, the processes it started and the command line it built
Written(exc, value, backend, started, cmd) ==
    [exc |-> exc, value |-> value, backend |-> backend, procs |-> started,
     cmd |-> cmd]

\* a subprocess.run(..., check=True) inside `except CalledProcessError`
RunTool(backend, tool, input_file, cmd, o) ==
    CASE o = "ok"      -> Written("none", TRUE, backend, Started(tool, input_file, o), cmd)
      [] o = "nonzero" -> Written("none", FALSE, backend, Started(tool, input_file, o), cmd)
      [] o = "absent"  -> Written("FileNotFoundError", FALSE, backend,
                                  Started(tool, input_file, o), cmd)

\* the tag library starts no process; cmd lists its calls: MP4(input_file),
\* the tags set and video.save(output_file). Outcome "error" is MP4(input_file)
\* raising, caught by `except Exception`.
TagLibrary(input_file, output_file, device_profile, custom_date, o) ==
    LET tags == [i \in 1..Len(device_profile) |->
                        <<device_profile[i][1], "=", device_profile[i][2]>>]
                     \o (IF Truthy(custom_date)
                         THEN << <<"creation_time", "=", custom_date>> >> ELSE <<>>)
    IN  IF o = "ok"
        THEN Written("none", TRUE, "mutagen", <<>>,
                     << <<"MP4", input_file>> >> \o tags \o << <<"save", output_file>> >>)
        ELSE Written("none", FALSE, "mutagen", <<>>, << <<"MP4", input_file>> >>)

\* modify_metadata_mutagen testing the suffix against SUPPORTED_FORMATS
modify_metadata_mutagen_any_video(input_file, output_file, device_profile, custom_date, o) ==
    IF Lower(Suffix(input_file)) \notin SUPPORTED_FORMATS
    THEN Written("none", FALSE, "mutagen", <<>>, <<>>)
    ELSE TagLibrary(input_file, output_file, device_profile, custom_date, o)

modify_metadata_mutagen(input_file, output_file, device_profile, custom_date, o) ==
    IF Lower(Suffix(input_file)) /= ".mp4"
    THEN Written("none", FALSE, "mutagen", <<>>, <<>>)
    ELSE TagLibrary(input_file, output_file, device_profile, custom_date, o)

modify_metadata_exiftool(input_file, output_file, device_profile, custom_date, o) ==
    LET cmd == << <<"exiftool">>, <<"-o">>, <<output_file>> >>
               \o [i \in 1..Len(device_profile) |->
                     <<"-" , device_profile[i][1], "=", device_profile[i][2]>>]
               \o (IF Truthy(custom_date)
                   THEN << <<"-CreateDate", "=", custom_date>>,
                           <<"-ModifyDate", "=", custom_date>> >>
                   ELSE <<>>)
               \o << <<"-overwrite_original">>, <<input_file>> >>
    IN  RunTool("exiftool", "exiftool", input_file, cmd, o)

modify_metadata_ffmpeg(input_file, output_file, device_profile, custom_date, o) ==
    LET cmd == << <<"ffmpeg">>, <<"-i">>, <<input_file>>, <<"-c">>, <<"copy">>,
                  <<"-map_metadata">>, <<"0">> >>
               \o build_metadata_args(device_profile, custom_date)
               \o << <<"-y">>, <<output_file>> >>
    IN  RunTool("ffmpeg", "ffmpeg", input_file, cmd, o)

Methods == {"mutagen", "exiftool", "ffmpeg"}

\* the `if method not in methods` fallback of modify_metadata
Fallback(method) == IF method \notin Methods THEN "ffmpeg" ELSE method

\* modify_metadata: o is the outcome of the external tool or library call
modify_metadata(input_file, output_file, device_profile, custom_date, method, o) ==
    LET m == Fallback(method) IN
    CASE m = "mutagen" ->
           modify_metadata_mutagen(input_file, output_file, device_profile, custom_date, o)
      [] m = "exiftool" ->
           modify_metadata_exiftool(input_file, output_file, device_profile, custom_date, o)
      [] m = "ffmpeg" ->
           modify_metadata_ffmpeg(input_file, output_file, device_profile, custom_date, o)

\* the outcomes the call of backend `method` can have
WriteOutcomes(method, inst) ==
    IF Fallback(method) = "mutagen" THEN TagOutcomes
    ELSE RunOutcomes(Fallback(method), inst)

strip_metadata(input_file, output_file, o) ==
    LET cmd == << <<"ffmpeg">>, <<"-i">>, <<input_file>>, <<"-c">>, <<"copy">>,
                  <<"-map_metadata">>, <<"-1">>, <<"-y">>, <<output_file>> >>
    IN  RunTool("strip", "ffmpeg", input_file, cmd, o)

load_custom_profile(profile_path) ==
    IF JsonLoad(profile_path).exc = "none" THEN JsonLoad(profile_path).value
    ELSE <<>>

-----------------------------------------------------------------------------
(* main: the command line *)

NoExit == -1

Exit(code) == pc' = "exited" /\ exitCode' = code

NoArgs ==
    [gui |-> FALSE, list_devices |-> FALSE, show_metadata |-> None,
     input |-> None, output |-> None, device |-> None, custom_profile |-> None,
     custom_date |-> None, strip |-> FALSE, method |-> "ffmpeg"]

\* the command lines tried
ArgSpace ==
    [gui : BOOLEAN, list_devices : BOOLEAN,
     show_metadata : {None, "clip.mp4", "gone.mp4"},
     input : {None, "clip.mp4", "notes.txt"},
     output : {None, "out.mp4"},
     device : {None, "iPhone 14 Pro", "Nokia 3310"},
     custom_profile : {None, "good.json", "empty.json", "bad.json", "missing.json"},
     custom_date : {None, "2024-01-01 00:00:00"},
     strip : BOOLEAN,
     method : {"ffmpeg", "mutagen", "exiftool", "handbrake"}]

\* the record of a public operation: how it ended, and for a writer the
\* backend that ran and what it was given
Called(op, file, method, profile, date, r) ==
    [op |-> op, exc |-> r.exc, value |-> r.value, backend |-> r.backend,
     method |-> method, file |-> file, profile |-> profile, date |-> date,
     cmd |-> r.cmd, by |-> 0]

NoCall == Called("none", None, "none", <<>>, None,
                 [exc |-> "none", value |-> FALSE, backend |-> "none", cmd |-> <<>>])

\* datetime.now() when the form is built
Now == "2024-06-01 12:00:00"

\* setup_gui: the initial values of the tk variables and widgets
NoForm ==
    [input_file_var |-> "", output_file_var |-> "", device_var |-> "",
     action_var |-> "modify", method_var |-> "ffmpeg", custom_date_var |-> FALSE,
     date_entry |-> Now, metadata_text |-> <<>>, process_button |-> "normal",
     progress |-> "stopped", status_var |-> "Ready"]

ApiIdle == call = NoCall /\ calls = 0
GuiIdle ==
    form = NoForm /\ edits = 0 /\ workers = <<>> /\ dialogs = "none" /\ touched = {}

InitCli ==
    /\ mode = "cli"
    /\ installed \in SUBSET Tools
    /\ procs = <<>>
    /\ cache = <<>>
    /\ args \in ArgSpace
    /\ pc = "start"
    /\ exitCode = NoExit
    /\ stdout = <<>>
    /\ ApiIdle
    /\ GuiIdle

\* parser.parse_args(): the `choices` of --device and --method
ParseArgs ==
    /\ mode = "cli" /\ pc = "start"
    /\ IF \/ (args.device /= None /\ args.device \notin Range(DeviceNames))
          \/ args.method \notin Methods
       THEN Exit(2)
       ELSE pc' = "parsed" /\ exitCode' = exitCode
    /\ UNCHANGED <<mode, installed, procs, cache, args, stdout, call, calls,
                   form, edits, workers, dialogs, touched>>

\* `if args.gui:` VideoMetadataGUI() runs check_tools, gui.run() runs the main
\* loop on this thread and returns when the window is closed
MainGui ==
    /\ mode = "cli" /\ pc = "parsed"
    /\ args.gui
    /\ \E o1 \in RunOutcomes("ffmpeg", installed), o2 \in RunOutcomes("exiftool", installed) :
         LET t == check_tools(o1, o2) IN
         /\ procs' = procs \o t.procs
         /\ touched' = IF t.exc /= "none" THEN touched ELSE {0}
         /\ Exit(IF t.exc /= "none" THEN 1 ELSE 0)
    /\ UNCHANGED <<mode, installed, cache, args, stdout, call, calls,
                   form, edits, workers, dialogs>>

\* `if args.list_devices:`
MainListDevices ==
    /\ mode = "cli" /\ pc = "parsed"
    /\ ~args.gui /\ args.list_devices
    /\ stdout' = DeviceNames
    /\ Exit(0)
    /\ UNCHANGED <<mode, installed, procs, cache, args, call, calls,
                   form, edits, workers, dialogs, touched>>

\* `if args.show_metadata:`
MainShowMetadata ==
    /\ mode = "cli" /\ pc = "parsed"
    /\ ~args.gui /\ ~args.list_devices /\ Truthy(args.show_metadata)
    /\ \E o1 \in RunOutcomes("ffmpeg", installed), o2 \in RunOutcomes("exiftool", installed),
          o3 \in ProbeOutcomes(installed) :
         LET t == check_tools(o1, o2)
             m == get_current_metadata(cache, args.show_metadata, o3)
         IN  IF t.exc /= "none"
             THEN /\ procs' = procs \o t.procs
                  /\ Exit(1)
                  /\ UNCHANGED <<cache, stdout>>
             ELSE IF ~validate_input_file(args.show_metadata)
             THEN /\ procs' = procs \o t.procs
                  /\ Exit(0)
                  /\ UNCHANGED <<cache, stdout>>
             ELSE /\ procs' = procs \o t.procs \o m.procs
                  /\ cache' = m.cache
                  /\ IF m.exc /= "none"
                     THEN Exit(1) /\ stdout' = stdout
                     ELSE Exit(0) /\ stdout' = m.value
    /\ UNCHANGED <<mode, installed, args, call, calls, form, edits, workers, dialogs, touched>>

\* the three parser.error checks
MainCheckFlags ==
    /\ mode = "cli" /\ pc = "parsed"
    /\ ~args.gui /\ ~args.list_devices /\ ~Truthy(args.show_metadata)
    /\ IF ~Truthy(args.input) \/ ~Truthy(args.output)
       THEN Exit(2)
       ELSE IF args.strip /\ (Truthy(args.device) \/ Truthy(args.custom_profile)
                              \/ Truthy(args.custom_date))
       THEN Exit(2)
       ELSE IF ~args.strip /\ ~Truthy(args.device) /\ ~Truthy(args.custom_profile)
       THEN Exit(2)
       ELSE pc' = "process" /\ exitCode' = exitCode
    /\ UNCHANGED <<mode, installed, procs, cache, args, stdout, call, calls,
                   form, edits, workers, dialogs, touched>>

\* the profile of a modify run
MainProfile ==
    IF Truthy(args.custom_profile) THEN load_custom_profile(args.custom_profile)
    ELSE ProfileGet(args.device)

\* the try block of main
MainProcess ==
    /\ mode = "cli" /\ pc = "process"
    /\ \E o1 \in RunOutcomes("ffmpeg", installed), o2 \in RunOutcomes("exiftool", installed),
          o3 \in WriteOutcomes(IF args.strip THEN "ffmpeg" ELSE args.method, installed) :
         LET t == check_tools(o1, o2)
             w == IF args.strip
                  THEN strip_metadata(args.input, args.output, o3)
                  ELSE modify_metadata(args.input, args.output, MainProfile,
                                       args.custom_date, args.method, o3)
         IN  IF t.exc /= "none"
             THEN /\ procs' = procs \o t.procs
                  /\ Exit(1)
                  /\ UNCHANGED <<stdout, call>>
             ELSE IF ~validate_input_file(args.input)
             THEN /\ procs' = procs \o t.procs
                  /\ Exit(1)
                  /\ UNCHANGED <<stdout, call>>
             ELSE IF ~args.strip /\ MainProfile = <<>> /\ ~Truthy(args.custom_profile)
             THEN /\ procs' = procs \o t.procs
                  /\ Exit(1)
                  /\ stdout' = <<"Invalid device profile">>
                  /\ UNCHANGED call
             ELSE /\ procs' = procs \o t.procs \o w.procs
                  /\ call' = IF args.strip
                              THEN Called("strip", args.input, "none", <<>>, None, w)
                              ELSE Called("modify", args.input, args.method,
                                          MainProfile, args.custom_date, w)
                  /\ IF w.exc /= "none"
                     THEN Exit(1) /\ stdout' = stdout
                     ELSE IF w.value
                     THEN Exit(0) /\ stdout' = <<"Successfully">>
                     ELSE Exit(1) /\ stdout' = <<"Failed">>
    /\ UNCHANGED <<mode, installed, cache, args, calls, form, edits, workers, dialogs, touched>>

NextCli ==
    \/ ParseArgs
    \/ MainGui
    \/ MainListDevices
    \/ MainShowMetadata
    \/ MainCheckFlags
    \/ MainProcess

SpecCli == InitCli /\ [][NextCli]_vars

-----------------------------------------------------------------------------
(* The public operations of VideoMetadataModifier called directly *)

ApiPaths == {"clip.mp4", "CLIP.MP4", "clip.mkv"}
ApiProfiles == {<<>>, JsonLoad("good.json").value, get_device_profiles("Xiaomi 15")}
ApiDates == {None, "", "2024-01-01 00:00:00"}
ApiMethods == Methods \cup {"handbrake"}

InitApi ==
    /\ mode = "api"
    /\ installed \in SUBSET Tools
    /\ procs = <<>>
    /\ cache = <<>>
    /\ args = NoArgs
    /\ pc = "api"
    /\ exitCode = NoExit
    /\ stdout = <<>>
    /\ ApiIdle
    /\ GuiIdle

ApiGetCurrentMetadata(file_path) ==
    /\ mode = "api" /\ calls < MaxCalls
    /\ \E o \in ProbeOutcomes(installed) :
         LET m == get_current_metadata(cache, file_path, o) IN
         /\ procs' = procs \o m.procs
         /\ cache' = m.cache
         /\ stdout' = m.value
         /\ call' = Called("get_current_metadata", file_path, "none", <<>>, None,
                           [exc |-> m.exc, value |-> FALSE, backend |-> "none",
                            cmd |-> <<>>])
    /\ calls' = calls + 1
    /\ UNCHANGED <<mode, installed, args, pc, exitCode, form, edits, workers, dialogs, touched>>

ApiModifyMetadata(input_file, device_profile, custom_date, method) ==
    /\ mode = "api" /\ calls < MaxCalls
    /\ \E o \in WriteOutcomes(method, installed) :
         LET w == modify_metadata(input_file, "out.mp4", device_profile,
                                  custom_date, method, o) IN
         /\ procs' = procs \o w.procs
         /\ call' = Called("modify", input_file, method, device_profile, custom_date, w)
    /\ calls' = calls + 1
    /\ UNCHANGED <<mode, installed, cache, args, pc, exitCode, stdout,
                   form, edits, workers, dialogs, touched>>

ApiStripMetadata(input_file) ==
    /\ mode = "api" /\ calls < MaxCalls
    /\ \E o \in RunOutcomes("ffmpeg", installed) :
         LET w == strip_metadata(input_file, "out.mp4", o) IN
         /\ procs' = procs \o w.procs
         /\ call' = Called("strip", input_file, "none", <<>>, None, w)
    /\ calls' = calls + 1
    /\ UNCHANGED <<mode, installed, cache, args, pc, exitCode, stdout,
                   form, edits, workers, dialogs, touched>>

NextApi ==
    \/ \E p \in ApiPaths : ApiGetCurrentMetadata(p)
    \/ \E p \in ApiPaths, d \in ApiProfiles, t \in ApiDates, m \in ApiMethods :
         ApiModifyMetadata(p, d, t, m)
    \/ \E p \in ApiPaths : ApiStripMetadata(p)

SpecApi == InitApi /\ [][NextApi]_vars

-----------------------------------------------------------------------------
(* VideoMetadataGUI: the form, on the thread of the tk main loop (thread 0) *)

MainThread == 0

GuiPaths == {"clip.mp4", "notes.txt"}
GuiDevices == {"iPhone 14 Pro"}

\* path.parent / (path.stem + "_processed" + path.suffix)
ProcessedName(filename) ==
    CASE filename = "clip.mp4"  -> "clip_processed.mp4"
      [] filename = "CLIP.MP4"  -> "CLIP_processed.MP4"
      [] filename = "clip.mkv"  -> "clip_processed.mkv"
      [] filename = "notes.txt" -> "notes_processed.txt"
      [] filename = "gone.mp4"  -> "gone_processed.mp4"

\* str.capitalize() on the keys of the profiles
Capitalize(key) ==
    CASE key = "make"          -> "Make"
      [] key = "model"         -> "Model"
      [] key = "software"      -> "Software"
      [] key = "encoder"       -> "Encoder"
      [] key = "creation_tool" -> "Creation_tool"
      [] OTHER -> key

\* the lines update_metadata_preview writes after the heading
PreviewText(profile) ==
    [i \in 1..Len(profile) |-> <<Capitalize(profile[i][1]), ": ", profile[i][2]>>]

InitGui ==
    /\ mode = "gui"
    /\ installed \in {t \in SUBSET Tools : "ffmpeg" \in t}
    /\ procs = check_tools("ok", IF "exiftool" \in installed THEN "ok" ELSE "absent").procs
    /\ cache = <<>>
    /\ args = [NoArgs EXCEPT !.gui = TRUE]
    /\ pc = "gui"
    /\ exitCode = NoExit
    /\ stdout = <<>>
    /\ ApiIdle
    /\ GuiIdle

\* a handler of the main loop runs: one more user action, on thread 0
UserAction ==
    /\ mode = "gui"
    /\ edits < MaxEdits
    /\ edits' = edits + 1
    /\ touched' = touched \cup {MainThread}
    /\ UNCHANGED <<mode, installed, cache, args, pc, exitCode, stdout, calls>>

browse_input_file(filename) ==
    /\ UserAction
    /\ IF filename /= ""
       THEN form' = [form EXCEPT !.input_file_var = filename,
                                 !.output_file_var = ProcessedName(filename)]
       ELSE form' = form
    /\ UNCHANGED <<procs, call, workers, dialogs>>

browse_output_file(filename) ==
    /\ UserAction
    /\ IF filename /= ""
       THEN form' = [form EXCEPT !.output_file_var = filename]
       ELSE form' = form
    /\ UNCHANGED <<procs, call, workers, dialogs>>

\* the user types into an Entry, the Combobox or picks a Radiobutton or the
\* Checkbutton: the widget writes its tk variable
EditWidget(field, text) ==
    /\ UserAction
    /\ form' = [form EXCEPT ![field] = text]
    /\ form' /= form
    /\ UNCHANGED <<procs, call, workers, dialogs>>

\* <<ComboboxSelected>>: the combobox has set device_var to the entry picked
on_device_selected(device) ==
    /\ UserAction
    /\ form' = [form EXCEPT !.device_var = device,
                            !.metadata_text =
                                IF device \in Range(DeviceNames)
                                THEN PreviewText(get_device_profiles(device))
                                ELSE @]
    /\ UNCHANGED <<procs, call, workers, dialogs>>

gui_load_custom_profile(filename) ==
    /\ UserAction
    /\ LET profile == load_custom_profile(filename) IN
       IF filename /= "" /\ profile /= <<>>
       THEN /\ form' = [form EXCEPT !.metadata_text = PreviewText(profile),
                                    !.device_var = "Custom Profile"]
            /\ dialogs' = "info"
       ELSE UNCHANGED <<form, dialogs>>
    /\ UNCHANGED <<procs, call, workers>>

\* save_profile succeeds or fails with the disk
save_current_profile(filename, saved) ==
    /\ UserAction
    /\ IF form.device_var \in Range(DeviceNames) /\ filename /= ""
       THEN dialogs' = IF saved THEN "info" ELSE "error"
       ELSE dialogs' = dialogs
    /\ UNCHANGED <<form, procs, call, workers>>

Worker(path) == [pc |-> "start", validated |-> path, success |-> FALSE]

\* the click on "Process Video"; a disabled button ignores it
process_video ==
    /\ mode = "gui"
    /\ form.process_button = "normal"
    /\ touched' = touched \cup {MainThread}
    /\ IF form.input_file_var = "" \/ form.output_file_var = ""
       THEN dialogs' = "error" /\ workers' = workers
       ELSE IF form.action_var = "modify" /\ form.device_var = ""
       THEN dialogs' = "error" /\ workers' = workers
       ELSE IF ~validate_input_file(form.input_file_var)
       THEN dialogs' = "error" /\ workers' = workers
       ELSE /\ Len(workers) < MaxWorkers
            /\ workers' = Append(workers, Worker(form.input_file_var))
            /\ dialogs' = dialogs
    /\ UNCHANGED <<mode, installed, procs, cache, args, pc, exitCode, stdout,
                   call, calls, form, edits>>

-----------------------------------------------------------------------------
(* process_thread: the worker threads 1, 2, ... *)

\* lines 384-386
WorkerBegin(i) ==
    /\ mode = "gui"
    /\ workers[i].pc = "start"
    /\ form' = [form EXCEPT !.progress = "running", !.process_button = "disabled",
                            !.status_var = "Processing..."]
    /\ workers' = [workers EXCEPT ![i].pc = "run"]
    /\ touched' = touched \cup {i}
    /\ UNCHANGED <<mode, installed, procs, cache, args, pc, exitCode, stdout,
                   call, calls, edits, dialogs>>

\* lines 388-400: an exception of the writer ends the thread
WorkerRun(i) ==
    /\ mode = "gui"
    /\ workers[i].pc = "run"
    /\ touched' = touched \cup {i}
    /\ IF form.action_var = "modify"
       THEN LET device == form.device_var
                profile == ProfileGet(device)
                custom_date == IF form.custom_date_var THEN form.date_entry ELSE None
            IN  IF profile = <<>> /\ device /= "Custom Profile"
                THEN /\ form' = [form EXCEPT !.status_var = "Invalid device profile."]
                     /\ workers' = [workers EXCEPT ![i].pc = "returned"]
                     /\ UNCHANGED <<procs, call>>
                ELSE \E o \in WriteOutcomes(form.method_var, installed) :
                       LET w == modify_metadata(form.input_file_var, form.output_file_var,
                                                profile, custom_date, form.method_var, o)
                       IN  /\ procs' = procs \o w.procs
                           /\ call' = [Called("modify", form.input_file_var,
                                              form.method_var, profile, custom_date, w)
                                       EXCEPT !.by = i]
                           /\ workers' = [workers EXCEPT
                                  ![i].pc = IF w.exc /= "none" THEN "crashed" ELSE "finish",
                                  ![i].success = w.value]
                           /\ form' = form
       ELSE \E o \in RunOutcomes("ffmpeg", installed) :
              LET w == strip_metadata(form.input_file_var, form.output_file_var, o)
              IN  /\ procs' = procs \o w.procs
                  /\ call' = [Called("strip", form.input_file_var, "none", <<>>, None, w)
                              EXCEPT !.by = i]
                  /\ workers' = [workers EXCEPT
                         ![i].pc = IF w.exc /= "none" THEN "crashed" ELSE "finish",
                         ![i].success = w.value]
                  /\ form' = form
    /\ UNCHANGED <<mode, installed, cache, args, pc, exitCode, stdout, calls,
                   edits, dialogs>>

\* lines 402-409
WorkerFinish(i) ==
    /\ mode = "gui"
    /\ workers[i].pc = "finish"
    /\ touched' = touched \cup {i}
    /\ form' = [form EXCEPT !.progress = "stopped", !.process_button = "normal",
                            !.status_var = IF workers[i].success
                                           THEN "Processing completed successfully!"
                                           ELSE "Processing failed."]
    /\ dialogs' = IF workers[i].success THEN "info" ELSE "error"
    /\ workers' = [workers EXCEPT ![i].pc = "done"]
    /\ UNCHANGED <<mode, installed, procs, cache, args, pc, exitCode, stdout,
                   call, calls, edits>>

NextGui ==
    \/ \E f \in GuiPaths \cup {""} : browse_input_file(f)
    \/ \E f \in {"", "out.mp4"} : browse_output_file(f)
    \/ \E f \in GuiPaths \cup {""} : EditWidget("input_file_var", f)
    \/ \E d \in {"", "Nokia 3310"} : EditWidget("device_var", d)
    \/ \E a \in {"modify", "strip"} : EditWidget("action_var", a)
    \/ \E m \in Methods : EditWidget("method_var", m)
    \/ \E b \in BOOLEAN : EditWidget("custom_date_var", b)
    \/ \E t \in {"", Now} : EditWidget("date_entry", t)
    \/ \E d \in GuiDevices : on_device_selected(d)
    \/ \E f \in {"", "good.json", "empty.json", "bad.json"} : gui_load_custom_profile(f)
    \/ \E f \in {"", "saved.json"}, ok \in BOOLEAN : save_current_profile(f, ok)
    \/ process_video
    \/ \E i \in DOMAIN workers : WorkerBegin(i)
    \/ \E i \in DOMAIN workers : WorkerRun(i)
    \/ \E i \in DOMAIN workers : WorkerFinish(i)

SpecGui == InitGui /\ [][NextGui]_vars

-----------------------------------------------------------------------------
(* The program: a command-line run, a form session or a library client *)

Init == InitCli \/ InitGui \/ InitApi

Next == NextCli \/ NextGui \/ NextApi

Spec == Init /\ [][Next]_vars

-----------------------------------------------------------------------------
(* Properties *)

Live == {"start", "run", "finish"}
Ended == {"done", "returned", "crashed"}

Writers == {"modify", "strip"}

\* C1: in the form at most one worker thread is outstanding at any time: no
\* Process action starts a worker while an earlier one has not finished.
C1_OneOutstandingWorker ==
    Cardinality({i \in DOMAIN workers : workers[i].pc \in Live}) <= 1

\* C2: the step that ends a worker thread is a completion notification: it
\* leaves the progress indicator stopped, the trigger control enabled and the
\* status text set to the success or the failure text, on every path.
C2_WorkerEndsNotified ==
    [][\A i \in DOMAIN workers :
          (workers[i].pc \notin Ended /\ workers'[i].pc \in Ended)
          => /\ form'.progress = "stopped"
             /\ form'.process_button = "normal"
             /\ form'.status_var \in {"Processing completed successfully!",
                                      "Processing failed."}]_vars

\* C3: only the form's own thread reads or changes the widgets; a worker
\* thread never does.
C3_OnlyFormThreadTouchesForm ==
    touched \subseteq {MainThread}

\* the command line carries --strip and a modify-only flag
StripWithModifyFlag ==
    /\ mode = "cli"
    /\ args.strip
    /\ args.device /= None \/ args.custom_profile /= None \/ args.custom_date /= None

\* C4: a command line with --strip and --device, --custom-profile or
\* --custom-date starts no external process and does not exit with success,
\* whatever the other flags are.
C4_StripModifyRejectedFirst ==
    StripWithModifyFlag
    => /\ procs = <<>>
       /\ pc = "exited" => exitCode /= 0

\* the command line asks for a modify
ModifyRequest ==
    /\ mode = "cli"
    /\ ~args.gui /\ ~args.list_devices /\ ~Truthy(args.show_metadata)
    /\ Truthy(args.input) /\ Truthy(args.output)
    /\ ~args.strip
    /\ Truthy(args.device) \/ Truthy(args.custom_profile)

\* C5: a command-line modify whose profile source gives no non-empty mapping
\* calls no write backend and exits non-zero.
C5_EmptyProfileNeverWritten ==
    (ModifyRequest /\ MainProfile = <<>>)
    => /\ call.op \notin Writers
       /\ pc = "exited" => exitCode /= 0

\* the action the command line asked for was done
ActionSucceeded ==
    IF args.gui THEN touched /= {}
    ELSE IF args.list_devices THEN stdout = DeviceNames
    ELSE IF Truthy(args.show_metadata) THEN stdout = Doc(args.show_metadata)
    ELSE call.op \in Writers /\ call.exc = "none" /\ call.value

\* C6: a command-line run exits with 0 when the action succeeded and with 1
\* when it did not; there is no other exit code.
C6_ExitCodeZeroIffSucceeded ==
    (mode = "cli" /\ pc = "exited")
    => /\ exitCode \in {0, 1}
       /\ exitCode = 0 <=> ActionSucceeded

Probes(file_path) == {i \in 1..Len(procs) : procs[i] = Proc("ffprobe", file_path)}

\* C7: the probe runs at most once per path and get_current_metadata never
\* raises; a call for a path probed before returns the recorded document.
C7_ProbeOncePerPath ==
    mode = "api"
    => /\ \A p \in ApiPaths : Cardinality(Probes(p)) <= 1
       /\ call.op = "get_current_metadata" => call.exc = "none"
       /\ \A p \in ApiPaths : Probes(p) /= {} => p \in DOMAIN cache

\* C8: modify_metadata and strip_metadata return a boolean and never raise.
C8_WritersNeverRaise ==
    call.op \in Writers => call.exc = "none"

\* C9: the path handed to a write backend is the path validate_input_file
\* accepted in the same request, on the command line and in the form.
C9_WrittenInputWasValidated ==
    (call.op \in Writers /\ mode /= "api")
    => /\ validate_input_file(call.file)
       /\ mode = "cli" => call.file = args.input
       /\ mode = "gui" => call.file = workers[call.by].validated

\* C10: modify_metadata runs the backend named, and ffmpeg for any other
\* name; with such a name it never raises and never runs exiftool or mutagen.
C10_DispatchByName ==
    call.op = "modify"
    => /\ call.backend = IF call.method \in {"mutagen", "exiftool", "ffmpeg"}
                         THEN call.method ELSE "ffmpeg"
       /\ call.method \notin {"mutagen", "exiftool", "ffmpeg"}
          => call.exc = "none" /\ call.backend \notin {"exiftool", "mutagen"}

\* the arguments that follow a '-metadata' flag, in order
RECURSIVE TagAssignments(_)
TagAssignments(cmd) ==
    IF Len(cmd) < 2 THEN <<>>
    ELSE IF cmd[1] = <<"-metadata">>
    THEN <<cmd[2]>> \o TagAssignments(Tail(Tail(cmd)))
    ELSE TagAssignments(Tail(cmd))

\* argument a immediately followed by argument b
Adjacent(cmd, a, b) == \E i \in 1..(Len(cmd) - 1) : cmd[i] = <<a>> /\ cmd[i + 1] = <<b>>

\* one key=value per entry of the mapping, then creation_time if a timestamp
\* is given
ExpectedTags(profile, date) ==
    [i \in 1..Len(profile) |-> <<profile[i][1], "=", profile[i][2]>>]
    \o (IF date = None \/ date = "" THEN <<>>
        ELSE << <<"creation_time", "=", date>> >>)

\* C11: the ffmpeg modify command asks for stream copy with -map_metadata 0
\* and its tag assignments are exactly one key=value per entry of the mapping,
\* in order, followed by creation_time iff a non-empty timestamp is given.
C11_FfmpegTagAssignments ==
    (call.op = "modify" /\ call.backend = "ffmpeg")
    => /\ Adjacent(call.cmd, "-c", "copy")
       /\ Adjacent(call.cmd, "-map_metadata", "0")
       /\ TagAssignments(call.cmd) = ExpectedTags(call.profile, call.date)
       /\ Cardinality({i \in 1..Len(call.cmd) : Len(call.cmd[i]) = 3})
            = Len(ExpectedTags(call.profile, call.date))
       /\ Cardinality({i \in 1..Len(call.cmd) : call.cmd[i] = <<"-metadata">>})
            = Len(ExpectedTags(call.profile, call.date))

\* an ffmpeg modify with several entries and a timestamp was called
C11_Witness ==
    /\ mode = "api"
    /\ call.op = "modify" /\ call.backend = "ffmpeg" /\ call.exc = "none"
    /\ Len(call.profile) > 1
    /\ Truthy(call.date)
    /\ Len(TagAssignments(call.cmd)) = Len(call.profile) + 1

\* C12: modify_metadata_mutagen on an input whose suffix, lowercased, is not
\* .mp4 returns False at once: it starts no process, does not open the input
\* and does not save the output, whatever the mapping and the timestamp.
C12_TagLibrarySkipsOtherFormats ==
    [][(/\ calls' /= calls \/ call' /= call
        /\ call'.op = "modify" /\ call'.backend = "mutagen"
        /\ Lower(Suffix(call'.file)) /= ".mp4")
       => /\ call'.exc = "none"
          /\ call'.value = FALSE
          /\ call'.cmd = <<>>
          /\ procs' = procs]_vars

\* the tag library was asked to write a non-empty mapping and a timestamp to
\* an .mkv input
C12_Witness ==
    /\ mode = "api"
    /\ call.op = "modify" /\ call.backend = "mutagen"
    /\ call.file = "clip.mkv"
    /\ call.profile /= <<>>
    /\ Truthy(call.date)
    /\ call.value = FALSE

\* C13: when a worker of the form calls modify_metadata, the mapping it passes
\* is the one shown in the preview, and it is not empty when the selection is
\* "Custom Profile", the mark of a custom profile loaded successfully.
C13_WrittenProfileIsPreviewed ==
    [][\A i \in DOMAIN workers :
          (/\ mode = "gui"
           /\ workers[i].pc = "run" /\ workers'[i].pc \in {"finish", "crashed"}
           /\ call'.op = "modify" /\ call'.by = i)
          => /\ PreviewText(call'.profile) = form.metadata_text
             /\ form.device_var = "Custom Profile" => call'.profile /= <<>>]_vars

====
